---- MODULE Spec2Model ----
(***************************************************************************)
(* Model of the Huntsman metadata translator                               *)
(* (python/lsst/obs/huntsman/translator.py).                               *)
(*                                                                         *)
(* Part 1: the identifier encoder (_get_exposure_id,                       *)
(*         _get_detector_exposure_id, max_exposure_id,                     *)
(*         max_detector_exposure_id), specification SpecId.                *)
(* Part 2: the per-record to_ accessors, with the memoisation cache and    *)
(*         the used-cards set, specification Spec.                         *)
(*                                                                         *)
(* Python integers that do not fit a machine word (the 15 and 17 digit     *)
(* identifiers) are represented by their canonical decimal digit sequence  *)
(* (most significant digit first, no leading zero, <<0>> for zero).        *)
(* Python strings of digits are digit sequences that may carry leading     *)
(* zeros.  int() is therefore the operation that drops leading zeros.      *)
(***************************************************************************)
EXTENDS Integers, Sequences, FiniteSets, TLC

VARIABLES
    dateIn,     \* SpecId: the two sampled datetime arguments
    detIn,      \* SpecId: the two sampled detector numbers
    expId,      \* SpecId: result of _get_exposure_id on each sample
    detExpId,   \* SpecId: result of _get_detector_exposure_id on each sample
    header,     \* Spec: header[r], the FITS header of record r (never written)
    cache,      \* Spec: cache[r], the _translator_cache of record r
    used,       \* Spec: used[r], the used-cards set of record r
    config,     \* Spec: the mapping configuration shared by all records
    last,       \* Spec: the most recent accessor call and its outcome
    ncalls      \* Spec: number of accessor calls made so far

idVars == <<dateIn, detIn, expId, detExpId>>
trVars == <<header, cache, used, config, last, ncalls>>
vars ==
    <<dateIn, detIn, expId, detExpId, header, cache, used, config, last,
      ncalls>>

----------------------------------------------------------------------------
(* Decimal digit strings and Python integers                               *)

\* str(n) for a machine-sized natural n: its decimal digits.
RECURSIVE str(_)
str(n) ==
    IF n < 10 THEN <<n>> ELSE Append(str(n \div 10), n % 10)

\* int(s) for a non-empty digit string s: the integer, i.e. s without its
\* leading zeros.
RECURSIVE int(_)
int(s) ==
    IF Len(s) > 1 /\ Head(s) = 0 THEN int(Tail(s)) ELSE s

\* The format specification "0<w>d" applied to an integer i: its digits, zero
\* padded on the left to at least w characters (never truncated).
RECURSIVE format_0wd(_, _)
format_0wd(i, w) ==
    IF Len(i) >= w THEN i ELSE format_0wd(<<0>> \o i, w)

\* Integer order on canonical digit sequences.
RECURSIVE LexLess(_, _)
LexLess(a, b) ==
    IF a = <<>> THEN FALSE
    ELSE IF Head(a) # Head(b) THEN Head(a) < Head(b)
    ELSE LexLess(Tail(a), Tail(b))

IntLess(a, b) ==
    \/ Len(a) < Len(b)
    \/ Len(a) = Len(b) /\ LexLess(a, b)

IntLeq(a, b) == a = b \/ IntLess(a, b)

\* Outcomes of a call: a returned value or a raised exception.
Ok(v) == [tag |-> "ok", v |-> v]
ValueError == [tag |-> "ValueError", v |-> <<>>]
NotCalled == [tag |-> "none", v |-> <<>>]

----------------------------------------------------------------------------
(* Part 1: the identifier encoder                                          *)

datetime(y, mo, d, h, mi, s, us) ==
    [year |-> y, month |-> mo, day |-> d, hour |-> h, minute |-> mi,
     second |-> s, microsecond |-> us]

max_num_detectors == 99

_max_date == datetime(2099, 12, 31, 23, 59, 59, 999999)

\* int(date.microsecond / 1E+3): float division, then truncation toward zero.
milisecond_of(date) == date.microsecond \div 1000

\* A plausible slip: keeping the first two digits of the year, not the last.
_get_exposure_id_wrong_slice(date) ==
    LET ys == str(date.year)
        year == format_0wd(int(SubSeq(ys, 1, 2)), 2)
        datestr == year \o format_0wd(str(date.month), 2)
                        \o format_0wd(str(date.day), 2)
                        \o format_0wd(str(date.hour), 2)
                        \o format_0wd(str(date.minute), 2)
                        \o format_0wd(str(date.second), 2)
                        \o format_0wd(str(milisecond_of(date)), 3)
    IN  IF Len(datestr) # 15 THEN ValueError ELSE Ok(int(datestr))

_get_exposure_id(date) ==
    LET ys == str(date.year)
        yy == SubSeq(ys, 3, Len(ys))        \* str(date.year)[2:]
    IN  IF yy = <<>> THEN ValueError      \* int("") raises ValueError
        ELSE
        LET year == format_0wd(int(yy), 2)
            month == format_0wd(str(date.month), 2)
            day == format_0wd(str(date.day), 2)
            hour == format_0wd(str(date.hour), 2)
            minute == format_0wd(str(date.minute), 2)
            second == format_0wd(str(date.second), 2)
            milisecond == format_0wd(str(milisecond_of(date)), 3)
            datestr == year \o month \o day \o hour \o minute \o second
                            \o milisecond
        IN  IF Len(datestr) # 15 THEN ValueError ELSE Ok(int(datestr))

\* int(f"{detector_num:02d}{exposure_id}"); exposure_id is an integer, so its
\* formatting is its canonical digit sequence.
_get_detector_exposure_id(detector_num, exposure_id) ==
    int(format_0wd(str(detector_num), 2) \o exposure_id)

\* A plausible slip: the maximum date built without its microsecond argument.
max_exposure_id_no_microsecond ==
    _get_exposure_id(datetime(2099, 12, 31, 23, 59, 59, 0)).v

max_exposure_id == _get_exposure_id(_max_date).v

\* A plausible slip: an off-by-one in the detector count.
max_detector_exposure_id_off_by_one ==
    _get_detector_exposure_id(max_num_detectors - 1, max_exposure_id)

max_detector_exposure_id ==
    _get_detector_exposure_id(max_num_detectors, max_exposure_id)

\* register(): the values declared to the registry.
register ==
    [detector_max |-> max_num_detectors,
     visit_max |-> max_exposure_id,
     exposure_max |-> max_exposure_id]

(* Sampled inputs of the encoder *)
Years == {99, 1999, 2001, 2021, 2099}
MonthDays == {<<3, 4>>, <<12, 31>>}
TimesOfDay == {<<12, 30, 45>>, <<23, 59, 59>>}
Microseconds == {678000, 678999, 999999}
DetectorNums == {0, 1, 12, 99}

Dates ==
    {datetime(y, md[1], md[2], t[1], t[2], t[3], us) :
        y \in Years, md \in MonthDays, t \in TimesOfDay, us \in Microseconds}

Samples == {1, 2}

\* The timestamp truncated to the millisecond, as a tuple ordered like time.
Truncated(date) ==
    <<date.year, date.month, date.day, date.hour, date.minute, date.second,
      milisecond_of(date)>>

TimeLess(d1, d2) == LexLess(Truncated(d1), Truncated(d2))

\* The translator's variables are not used by the encoder's specification.
IdleTr ==
    /\ header = <<>>
    /\ cache = <<>>
    /\ used = <<>>
    /\ config = <<>>
    /\ last = <<>>
    /\ ncalls = 0

InitId ==
    /\ IdleTr
    /\ dateIn \in [Samples -> Dates]
    /\ detIn \in [Samples -> DetectorNums]
    /\ expId = [i \in Samples |-> NotCalled]
    /\ detExpId = [i \in Samples |-> NotCalled]

\* Apply _get_exposure_id to both samples.
EncodeExposure ==
    /\ \A i \in Samples : expId[i].tag = "none"
    /\ expId' = [i \in Samples |-> _get_exposure_id(dateIn[i])]
    /\ UNCHANGED <<dateIn, detIn, detExpId>>

\* Apply _get_detector_exposure_id to every sample whose exposure id exists.
EncodeDetectorExposure ==
    /\ \A i \in Samples : expId[i].tag # "none"
    /\ \A i \in Samples : detExpId[i].tag = "none"
    /\ detExpId' = [i \in Samples |->
                      IF expId[i].tag = "ok"
                      THEN Ok(_get_detector_exposure_id(detIn[i], expId[i].v))
                      ELSE expId[i]]
    /\ UNCHANGED <<dateIn, detIn, expId>>

NextId ==
    \/ EncodeExposure /\ UNCHANGED trVars
    \/ EncodeDetectorExposure /\ UNCHANGED trVars

SpecId == InitId /\ [][NextId]_vars

----------------------------------------------------------------------------
(* Properties of the identifier encoder, checked under SpecId              *)

BothEncoded == \A i \in Samples : expId[i].tag = "ok"

BothDetEncoded == \A i \in Samples : detExpId[i].tag = "ok"

\* Two four-digit years of the same century: the two digits the encoder
\* strips (str(date.year)[:2]) agree.
SameCentury(d1, d2) ==
    /\ d1.year >= 1000
    /\ d2.year >= 1000
    /\ d1.year \div 100 = d2.year \div 100

\* C1 (as stated): for all timestamps t1 < t2, compared after truncation to
\* the millisecond, _get_exposure_id(t1) < _get_exposure_id(t2).
C1_StrictlyIncreasing ==
    \A i, j \in Samples :
        (BothEncoded /\ TimeLess(dateIn[i], dateIn[j]))
            => IntLess(expId[i].v, expId[j].v)

\* C1 (amended): for timestamps t1 < t2 (millisecond-truncated) whose years
\* have four digits and lie in the same century, the exposure identifier of
\* t1 is strictly smaller than that of t2.
C1_IncreasingWithinCentury ==
    \A i, j \in Samples :
        (BothEncoded /\ TimeLess(dateIn[i], dateIn[j])
            /\ SameCentury(dateIn[i], dateIn[j]))
            => IntLess(expId[i].v, expId[j].v)

C1_Witness ==
    /\ BothEncoded
    /\ dateIn[1].year = 2001
    /\ dateIn[2].year = 2021
    /\ TimeLess(dateIn[1], dateIn[2])
    /\ IntLess(expId[1].v, expId[2].v)

\* C2: for any date from year 0 up to the maximum date, _get_exposure_id
\* returns an integer whose decimal representation has exactly 15 digits.
C2_FifteenDigits ==
    \A i \in Samples :
        expId[i].tag # "none"
            => (expId[i].tag = "ok" /\ Len(expId[i].v) = 15)

\* C3: for d in [0, 99] and every exposure identifier e, the result of
\* _get_detector_exposure_id(d, e), written with 17 digits, is d zero-padded
\* to two digits followed by the 15 digits of e.
C3_Decomposes ==
    \A i \in Samples :
        (detExpId[i].tag = "ok" /\ detIn[i] \in 0..99)
            => LET r == format_0wd(detExpId[i].v, 17)
               IN  /\ Len(r) = 17
                   /\ SubSeq(r, 1, 2) = format_0wd(str(detIn[i]), 2)
                   /\ SubSeq(r, 3, 17) = format_0wd(expId[i].v, 15)

\* C4: two (detector, start time) pairs with detector numbers in [1, 99]
\* that differ in the detector or in the millisecond-truncated time never
\* get the same detector-exposure identifier.
C4_Unambiguous ==
    \A i, j \in Samples :
        (/\ BothDetEncoded
         /\ detIn[i] \in 1..99
         /\ detIn[j] \in 1..99
         /\ (detIn[i] # detIn[j]
                \/ Truncated(dateIn[i]) # Truncated(dateIn[j])))
            => detExpId[i].v # detExpId[j].v

\* The collision inside one century: detector 1 in 2021 and detector 12 in
\* 2001, same month, day and time, get one identifier.
C4_LeadingZeroCollision ==
    /\ BothDetEncoded
    /\ detIn[1] = 1
    /\ dateIn[1].year = 2021
    /\ detIn[2] = 12
    /\ dateIn[2].year = 2001
    /\ detExpId[1].v = detExpId[2].v

\* C5: max_exposure_id() is _get_exposure_id at the maximum date, no sampled
\* date (all are at or below the maximum date) encodes to a larger value, and
\* register() declares it as exposure_max and visit_max.
C5_MaxExposureId ==
    /\ Ok(max_exposure_id) = _get_exposure_id(_max_date)
    /\ register.exposure_max = max_exposure_id
    /\ register.visit_max = max_exposure_id
    /\ \A i \in Samples :
          expId[i].tag = "ok" => IntLeq(expId[i].v, max_exposure_id)

C5_Witness ==
    /\ expId[1].tag = "ok"
    /\ Truncated(dateIn[1]) = Truncated(_max_date)
    /\ expId[1].v = max_exposure_id
    /\ expId[2].tag = "ok"
    /\ IntLess(expId[2].v, max_exposure_id)

\* C6: max_detector_exposure_id() is _get_detector_exposure_id(99,
\* max_exposure_id()), and every detector-exposure identifier of a detector
\* number in [1, 99] and a date up to the maximum date is at most that value.
C6_MaxDetectorExposureId ==
    /\ max_detector_exposure_id
          = _get_detector_exposure_id(99, max_exposure_id)
    /\ \A i \in Samples :
          (detExpId[i].tag = "ok" /\ detIn[i] \in 1..99)
              => IntLeq(detExpId[i].v, max_detector_exposure_id)

C6_Witness ==
    /\ detExpId[1].tag = "ok"
    /\ detIn[1] = 99
    /\ detExpId[1].v = max_detector_exposure_id
    /\ detExpId[2].tag = "ok"
    /\ detIn[2] \in 1..99
    /\ IntLess(detExpId[2].v, max_detector_exposure_id)

----------------------------------------------------------------------------
(* Part 2: the translator's accessors                                      *)
(*                                                                         *)
(* A header is a function from the card keys it holds to their values.     *)
(* One record's mutable state is st = [cache, used, reads]: the            *)
(* _translator_cache, the used-cards set, and (for observation only) the   *)
(* header keys looked up during the current top-level call.  Every         *)
(* accessor maps (header, st) to [st |-> new state, out |-> outcome]: a    *)
(* raised exception keeps the state changes made before it was raised.     *)

MaxCalls == 3
MaxExpTime == 1

KeyError(key) == [tag |-> "KeyError", v |-> key]
RuntimeError(camera_name) == [tag |-> "RuntimeError", v |-> camera_name]

Result(st, out) == [st |-> st, out |-> out]

\* self._header[key] succeeded: note the lookup.
Lookup(st, keys) == [st EXCEPT !.reads = @ \cup keys]

\* self._used_these_cards(*keys)
_used_these_cards(st, keys) == [st EXCEPT !.used = @ \cup keys]

\* A plausible slip: the decorator left off a method.
cache_translation_missing(name, st, computed) == computed

\* @cache_translation: return the cached value if the method's name is in the
\* cache; otherwise run the method and, if it returns, store its value.
cache_translation(name, st, computed) ==
    IF name \in DOMAIN st.cache
    THEN Result(st, Ok(st.cache[name]))
    ELSE IF computed.out.tag = "ok"
         THEN Result([computed.st EXCEPT
                         !.cache = (name :> computed.out.v) @@ @],
                     computed.out)
         ELSE computed

(* Configuration read at import time (HUNTSMAN_CONFIG) *)

\* HUNTSMAN_CONFIG["cameras"]["devices"]: the camera names, in order.
Devices == <<"camA", "camB", "camC">>

\* _trivial_map: property -> header key; exposure_time carries unit=u.s.
_trivial_map ==
    [exposure_time |-> [key |-> "EXPTIME", unit |-> "s"],
     detector_name |-> [key |-> "CAM-ID", unit |-> "none"]]

_const_map == [instrument |-> "Huntsman"]

Quantity(value, unit) == [value |-> value, unit |-> unit]

\* Accessor generated from a trivial mapping: read the card, attach the unit,
\* mark the card used.
trivial_translator(property, h, st) ==
    LET m == _trivial_map[property]
    IN  IF m.key \notin DOMAIN h
        THEN Result(st, KeyError(m.key))
        ELSE Result(_used_these_cards(Lookup(st, {m.key}), {m.key}),
                    Ok(IF m.unit = "none" THEN h[m.key]
                       ELSE Quantity(h[m.key], m.unit)))

to_exposure_time(h, st) ==
    cache_translation("to_exposure_time", st,
                      trivial_translator("exposure_time", h, st))

to_detector_name(h, st) ==
    cache_translation("to_detector_name", st,
                      trivial_translator("detector_name", h, st))

\* Accessor generated from a constant mapping.
to_instrument(h, st) == Result(st, Ok(_const_map.instrument))

\* The first index i (1-based) with Devices[i] = camera_name, or 0.
CameraIndex(camera_name) ==
    IF \E i \in DOMAIN Devices : Devices[i] = camera_name
    THEN CHOOSE i \in DOMAIN Devices :
            /\ Devices[i] = camera_name
            /\ \A j \in DOMAIN Devices : Devices[j] = camera_name => i <= j
    ELSE 0

\* A plausible slip: the "not present in config" check left out.
_get_camera_num_from_config_no_raise(camera_name) ==
    Ok(CameraIndex(camera_name))

_get_camera_num_from_config(camera_name) ==
    IF CameraIndex(camera_name) = 0
    THEN RuntimeError(camera_name)
    ELSE Ok(CameraIndex(camera_name))

to_detector_num_body(h, st) ==
    LET name == to_detector_name(h, st)
    IN  IF name.out.tag # "ok" THEN name
        ELSE Result(name.st, _get_camera_num_from_config(name.out.v))

to_detector_num(h, st) ==
    cache_translation("to_detector_num", st, to_detector_num_body(h, st))

\* parse_date: the DATE-OBS card, held as its fields, becomes a datetime.
parse_date(raw) ==
    datetime(raw[1], raw[2], raw[3], raw[4], raw[5], raw[6], raw[7])

\* A plausible slip: the card marked as used before the identifier is computed.
to_exposure_id_body_marks_first(h, st) ==
    LET key == "DATE-OBS"
    IN  IF key \notin DOMAIN h THEN Result(st, KeyError(key))
        ELSE LET st1 == _used_these_cards(Lookup(st, {key}), {key})
                 exp_id == _get_exposure_id(parse_date(h[key]))
             IN  Result(st1, exp_id)

\* A plausible slip: header.get(key) with a default instead of header[key].
to_exposure_id_body_default(h, st) ==
    LET key == "DATE-OBS"
    IN  IF key \notin DOMAIN h THEN Result(st, Ok(<<0>>))
        ELSE LET st1 == Lookup(st, {key})
                 exp_id == _get_exposure_id(parse_date(h[key]))
             IN  IF exp_id.tag # "ok" THEN Result(st1, exp_id)
                 ELSE Result(_used_these_cards(st1, {key}), exp_id)

to_exposure_id_body(h, st) ==
    LET key == "DATE-OBS"
    IN  IF key \notin DOMAIN h THEN Result(st, KeyError(key))
        ELSE LET st1 == Lookup(st, {key})
                 exp_id == _get_exposure_id(parse_date(h[key]))
             IN  IF exp_id.tag # "ok" THEN Result(st1, exp_id)
                 ELSE Result(_used_these_cards(st1, {key}), exp_id)

to_exposure_id_undecorated(h, st) ==
    cache_translation_missing("to_exposure_id", st, to_exposure_id_body(h, st))

to_exposure_id(h, st) ==
    cache_translation("to_exposure_id", st, to_exposure_id_body(h, st))

to_visit_id(h, st) ==
    cache_translation("to_visit_id", st, to_exposure_id(h, st))

to_observation_counter(h, st) ==
    cache_translation("to_observation_counter", st, to_exposure_id(h, st))

to_detector_exposure_id_body(h, st) ==
    LET exp_id == to_exposure_id(h, st)
    IN  IF exp_id.out.tag # "ok" THEN exp_id
        ELSE LET det_num == to_detector_num(h, exp_id.st)
             IN  IF det_num.out.tag # "ok" THEN det_num
                 ELSE Result(det_num.st,
                             Ok(_get_detector_exposure_id(det_num.out.v,
                                                          exp_id.out.v)))

to_detector_exposure_id(h, st) ==
    cache_translation("to_detector_exposure_id", st,
                      to_detector_exposure_id_body(h, st))

\* str(self.to_detector_exposure_id()): the decimal string of the integer.
to_observation_id_body(h, st) ==
    LET id == to_detector_exposure_id(h, st)
    IN  IF id.out.tag # "ok" THEN id
        ELSE Result(id.st, Ok([str |-> id.out.v]))

to_observation_id(h, st) ==
    cache_translation("to_observation_id", st, to_observation_id_body(h, st))

(* Times.  An astropy Time is held as the datetime it was built from plus  *)
(* an offset in seconds.                                                   *)

Time(date) == [t0 |-> date, plus_s |-> 0]

\* get_quantity_value(quantity, unit): the bare number quantity.to_value(unit).
\* Every quantity of the model is in seconds and so is every unit asked for:
\* the conversion factor is 1 and the unit is dropped.
get_quantity_value(quantity, unit) == quantity.value

\* Seconds in the day: the unit astropy gives a bare number added to a Time
\* (Time.__add__ wraps it as TimeDelta(number), whose default format is "jd").
SecondsPerDay == 86400

\* Time + number, the number having no unit.
TimePlusNumber(time, number) ==
    [time EXCEPT !.plus_s = @ + number * SecondsPerDay]

\* end - begin in seconds, for two times built from the same datetime.
TimeDiffSeconds(end, begin) == end.plus_s - begin.plus_s

\* A plausible slip: the _used_these_cards call left out.
to_datetime_begin_body_unmarked(h, st) ==
    LET key == "DATE-OBS"
    IN  IF key \notin DOMAIN h THEN Result(st, KeyError(key))
        ELSE Result(Lookup(st, {key}), Ok(Time(parse_date(h[key]))))

to_datetime_begin_body(h, st) ==
    LET key == "DATE-OBS"
    IN  IF key \notin DOMAIN h THEN Result(st, KeyError(key))
        ELSE Result(_used_these_cards(Lookup(st, {key}), {key}),
                    Ok(Time(parse_date(h[key]))))

to_datetime_begin(h, st) ==
    cache_translation("to_datetime_begin", st, to_datetime_begin_body(h, st))

to_datetime_end_body(h, st) ==
    LET q == to_exposure_time(h, st)
    IN  IF q.out.tag # "ok" THEN q
        ELSE LET exptime == get_quantity_value(q.out.v, "s")
                 begin == to_datetime_begin(h, q.st)
             IN  IF begin.out.tag # "ok" THEN begin
                 ELSE Result(begin.st,
                             Ok(TimePlusNumber(begin.out.v, exptime)))

to_datetime_end(h, st) ==
    cache_translation("to_datetime_end", st, to_datetime_end_body(h, st))

(* Capability provider (huntsman.drp.utils.header): each function returns  *)
(* a value and the set of cards it used.  The cards each one reads are the *)
(* provider's business; they are fixed here per function.                  *)

ProviderCards ==
    [header_to_observation_type |-> {"IMAGETYP"},
     header_to_location |-> {"LAT-OBS", "LONG-OBS"},
     header_to_radec |-> {"RA-MNT", "DEC-MNT"},
     header_to_altaz |-> {"ALT-MNT", "AZ-MNT"}]

\* The provider's result: an exception if a card is missing, else a value
\* determined by the cards read, with the cards as used_cards.
header_utils(function, h) ==
    LET cards == ProviderCards[function]
    IN  IF \E k \in cards : k \notin DOMAIN h
        THEN KeyError(CHOOSE k \in cards : k \notin DOMAIN h)
        ELSE Ok([value |-> [k \in cards |-> h[k]], used_cards |-> cards])

\* The shape shared by to_observation_type, to_location, to_tracking_radec
\* and to_altaz_begin: call the provider, mark its used cards, return its value.
provider_body(function, h, st) ==
    LET r == header_utils(function, h)
    IN  IF r.tag # "ok" THEN Result(st, r)
        ELSE Result(_used_these_cards(Lookup(st, r.v.used_cards),
                                      r.v.used_cards),
                    Ok(r.v.value))

to_observation_type(h, st) ==
    cache_translation("to_observation_type", st,
                      provider_body("header_to_observation_type", h, st))

to_location(h, st) ==
    cache_translation("to_location", st,
                      provider_body("header_to_location", h, st))

to_tracking_radec(h, st) ==
    cache_translation("to_tracking_radec", st,
                      provider_body("header_to_radec", h, st))

to_altaz_begin(h, st) ==
    cache_translation("to_altaz_begin", st,
                      provider_body("header_to_altaz", h, st))

\* A plausible slip: header.get(key), so that a missing card reads as "not dark".
to_dark_time_body_get(h, st) ==
    LET key == "IMAGETYP"
    IN  IF key \notin DOMAIN h
        THEN Result(_used_these_cards(st, {key}), Ok(Quantity(0, "s")))
        ELSE LET st1 == Lookup(st, {key})
                 dark_time == IF h[key] = "Dark Frame"
                              THEN to_exposure_time(h, st1)
                              ELSE Result(st1, Ok(Quantity(0, "s")))
             IN  IF dark_time.out.tag # "ok" THEN dark_time
                 ELSE Result(_used_these_cards(dark_time.st, {key}),
                             dark_time.out)

to_dark_time_body(h, st) ==
    LET key == "IMAGETYP"
    IN  IF key \notin DOMAIN h THEN Result(st, KeyError(key))
        ELSE LET st1 == Lookup(st, {key})
                 dark_time == IF h[key] = "Dark Frame"
                              THEN to_exposure_time(h, st1)
                              ELSE Result(st1, Ok(Quantity(0, "s")))
             IN  IF dark_time.out.tag # "ok" THEN dark_time
                 ELSE Result(_used_these_cards(dark_time.st, {key}),
                             dark_time.out)

to_dark_time(h, st) ==
    cache_translation("to_dark_time", st, to_dark_time_body(h, st))

(* Headers *)

DateObsCards ==
    {<<2021, 3, 4, 12, 30, 45, 678000>>, <<99, 3, 4, 12, 30, 45, 678000>>}
ImageTypes == {"Dark Frame", "Light Frame", "dark frame"}
ExposureTimes == 0..MaxExpTime
CameraNames == {"camB", "camX"}

\* The cards every sampled header holds (read by the provider only).
PointingCards ==
    [k \in {"LAT-OBS", "LONG-OBS", "RA-MNT", "DEC-MNT", "ALT-MNT", "AZ-MNT"}
        |-> 0]

Card(key, values) == {<<>>} \cup {key :> v : v \in values}

Headers ==
    {d @@ i @@ e @@ c @@ PointingCards :
        d \in Card("DATE-OBS", DateObsCards),
        i \in Card("IMAGETYP", ImageTypes),
        e \in Card("EXPTIME", ExposureTimes),
        c \in {"CAM-ID" :> n : n \in CameraNames}}

Accessors ==
    {"to_detector_num", "to_exposure_id", "to_visit_id",
     "to_detector_exposure_id", "to_observation_id",
     "to_observation_counter", "to_datetime_begin", "to_datetime_end",
     "to_observation_type", "to_location", "to_tracking_radec",
     "to_altaz_begin", "to_dark_time", "to_exposure_time",
     "to_detector_name", "to_instrument"}

Records == DOMAIN header

\* A plausible slip: the cache kept in one dictionary on the class, so that
\* every instance sees the entries of the others.
State_class_level_cache(r) ==
    [cache |-> [a \in UNION {DOMAIN cache[q] : q \in Records} |->
                  IF a \in DOMAIN cache[r] THEN cache[r][a]
                  ELSE cache[CHOOSE q \in Records : a \in DOMAIN cache[q]][a]],
     used |-> used[r],
     reads |-> {}]

State(r) == [cache |-> cache[r], used |-> used[r], reads |-> {}]

NoCall == [rec |-> 0, name |-> "none", out |-> NotCalled, reads |-> {}]

\* Construction of one translator per header: empty cache, nothing used.
Init ==
    /\ dateIn = <<>>
    /\ detIn = <<>>
    /\ expId = <<>>
    /\ detExpId = <<>>
    /\ header \in [{1} -> Headers]
    /\ cache = [r \in DOMAIN header |-> <<>>]
    /\ used = [r \in DOMAIN header |-> {}]
    /\ config = [trivial |-> _trivial_map, const |-> _const_map]
    /\ last = NoCall
    /\ ncalls = 0

\* Two complete headers that differ in every card the accessors read.
HeadersPar ==
    {h \in Headers :
        /\ {"DATE-OBS", "IMAGETYP", "EXPTIME"} \subseteq DOMAIN h
        /\ \/ /\ h["DATE-OBS"][1] = 2021
              /\ h["IMAGETYP"] = "Dark Frame"
              /\ h["EXPTIME"] = MaxExpTime
              /\ h["CAM-ID"] = "camB"
           \/ /\ h["DATE-OBS"][1] = 99
              /\ h["IMAGETYP"] = "Light Frame"
              /\ h["EXPTIME"] = 0
              /\ h["CAM-ID"] = "camX"}

\* Two translators alive at once, each constructed on its own header.
InitPar ==
    /\ dateIn = <<>>
    /\ detIn = <<>>
    /\ expId = <<>>
    /\ detExpId = <<>>
    /\ header \in [{1, 2} -> HeadersPar]
    /\ cache = [r \in DOMAIN header |-> <<>>]
    /\ used = [r \in DOMAIN header |-> {}]
    /\ config = [trivial |-> _trivial_map, const |-> _const_map]
    /\ last = NoCall
    /\ ncalls = 0

\* One top-level call of accessor `name` on record r, with result res.
Call(r, name, res) ==
    /\ ncalls < MaxCalls
    /\ ncalls' = ncalls + 1
    /\ cache' = [cache EXCEPT ![r] = res.st.cache]
    /\ used' = [used EXCEPT ![r] = res.st.used]
    /\ last' = [rec |-> r, name |-> name, out |-> res.out,
                reads |-> res.st.reads]
    /\ UNCHANGED <<header, config, dateIn, detIn, expId, detExpId>>

(* One action per accessor: a caller asks record r for the property. *)

call_to_detector_num ==
    \E r \in Records :
        Call(r, "to_detector_num", to_detector_num(header[r], State(r)))

call_to_exposure_id ==
    \E r \in Records :
        Call(r, "to_exposure_id", to_exposure_id(header[r], State(r)))

call_to_visit_id ==
    \E r \in Records :
        Call(r, "to_visit_id", to_visit_id(header[r], State(r)))

call_to_detector_exposure_id ==
    \E r \in Records :
        Call(r, "to_detector_exposure_id", to_detector_exposure_id(header[r], State(r)))

call_to_observation_id ==
    \E r \in Records :
        Call(r, "to_observation_id", to_observation_id(header[r], State(r)))

call_to_observation_counter ==
    \E r \in Records :
        Call(r, "to_observation_counter", to_observation_counter(header[r], State(r)))

call_to_datetime_begin ==
    \E r \in Records :
        Call(r, "to_datetime_begin", to_datetime_begin(header[r], State(r)))

call_to_datetime_end ==
    \E r \in Records :
        Call(r, "to_datetime_end", to_datetime_end(header[r], State(r)))

call_to_observation_type ==
    \E r \in Records :
        Call(r, "to_observation_type", to_observation_type(header[r], State(r)))

call_to_location ==
    \E r \in Records :
        Call(r, "to_location", to_location(header[r], State(r)))

call_to_tracking_radec ==
    \E r \in Records :
        Call(r, "to_tracking_radec", to_tracking_radec(header[r], State(r)))

call_to_altaz_begin ==
    \E r \in Records :
        Call(r, "to_altaz_begin", to_altaz_begin(header[r], State(r)))

call_to_dark_time ==
    \E r \in Records :
        Call(r, "to_dark_time", to_dark_time(header[r], State(r)))

call_to_exposure_time ==
    \E r \in Records :
        Call(r, "to_exposure_time", to_exposure_time(header[r], State(r)))

call_to_detector_name ==
    \E r \in Records :
        Call(r, "to_detector_name", to_detector_name(header[r], State(r)))

call_to_instrument ==
    \E r \in Records :
        Call(r, "to_instrument", to_instrument(header[r], State(r)))

Next ==
    \/ call_to_detector_num
    \/ call_to_exposure_id
    \/ call_to_visit_id
    \/ call_to_detector_exposure_id
    \/ call_to_observation_id
    \/ call_to_observation_counter
    \/ call_to_datetime_begin
    \/ call_to_datetime_end
    \/ call_to_observation_type
    \/ call_to_location
    \/ call_to_tracking_radec
    \/ call_to_altaz_begin
    \/ call_to_dark_time
    \/ call_to_exposure_time
    \/ call_to_detector_name
    \/ call_to_instrument

Spec == Init /\ [][Next]_vars

\* The calls on two records interleave in any order.
SpecPar == InitPar /\ [][Next]_vars

----------------------------------------------------------------------------
(* Properties of the accessors, checked under Spec                         *)

\* The step is a top-level call of accessor a on record r.
IsCall(r, a) ==
    /\ ncalls' = ncalls + 1
    /\ last'.rec = r
    /\ last'.name = a

\* The call changes nothing and looks nothing up in the header.
NoEffect ==
    /\ last'.reads = {}
    /\ used' = used
    /\ cache' = cache

\* C7: a second call of an accessor on the same record returns the identical
\* value, looks up no header key and adds nothing to the used-cards set.  An
\* accessor has been called before when its name is in the cache, or when the
\* call just before this one was the same call and returned.
C7_Memoised ==
    [][\A r \in Records : \A a \in Accessors :
          /\ (IsCall(r, a) /\ a \in DOMAIN cache[r])
                => (last'.out = Ok(cache[r][a]) /\ NoEffect)
          /\ (IsCall(r, a) /\ last.rec = r /\ last.name = a
                /\ last.out.tag = "ok")
                => (last'.out = last.out /\ NoEffect)]_vars

C7_Witness ==
    /\ ncalls >= 2
    /\ last.name = "to_exposure_id"
    /\ last.out.tag = "ok"
    /\ last.reads = {}
    /\ "to_exposure_id" \in DOMAIN cache[last.rec]
    /\ last.out.v = cache[last.rec]["to_exposure_id"]

\* C8: on a record whose header lacks DATE-OBS, a request of exposure_id
\* fails with a KeyError naming DATE-OBS, every field cached before the call
\* stays cached with its value, and exposure_id is never cached.
C8_MissingDateObs ==
    [][\A r \in Records :
          "DATE-OBS" \notin DOMAIN header[r] =>
              /\ "to_exposure_id" \notin DOMAIN cache'[r]
              /\ IsCall(r, "to_exposure_id")
                    => /\ last'.out = KeyError("DATE-OBS")
                       /\ cache'[r] = cache[r]]_vars

C8_Witness ==
    /\ last.name = "to_exposure_id"
    /\ "DATE-OBS" \notin DOMAIN header[last.rec]
    /\ last.out = KeyError("DATE-OBS")
    /\ "to_observation_type" \in DOMAIN cache[last.rec]
    /\ "to_exposure_id" \notin DOMAIN cache[last.rec]

UnknownDevice(r) == CameraIndex(header[r]["CAM-ID"]) = 0

NewState == [cache |-> <<>>, used |-> {}, reads |-> {}]

\* The same header with a camera name that is in the device list.
WithKnownDevice(h) == [h EXCEPT !["CAM-ID"] = "camB"]

\* Unrelated fields resolve as they would with a known device.
C9_UnrelatedUnaffected ==
    (last.rec # 0 /\ UnknownDevice(last.rec)) =>
        /\ last.name = "to_observation_type"
             => last.out = to_observation_type(
                               WithKnownDevice(header[last.rec]), NewState).out
        /\ last.name = "to_exposure_id"
             => last.out = to_exposure_id(
                               WithKnownDevice(header[last.rec]), NewState).out

\* C9 (as stated): when the detector name is not in the device list, every
\* request of detector_num, detector_exposure_id and observation_id fails
\* with the unknown-device RuntimeError, and unrelated fields are unaffected.
C9_UnknownDeviceAlways ==
    (last.rec # 0 /\ UnknownDevice(last.rec)) =>
        /\ last.name \in {"to_detector_num", "to_detector_exposure_id",
                          "to_observation_id"}
             => /\ last.out.tag = "RuntimeError"
                /\ last.out.v = header[last.rec]["CAM-ID"]
        /\ C9_UnrelatedUnaffected

\* C9 (amended): detector_num fails with the unknown-device RuntimeError;
\* detector_exposure_id and observation_id fail too, with that RuntimeError
\* when exposure_id can be resolved and otherwise with the failure of
\* exposure_id, which is resolved first; unrelated fields are unaffected.
C9_UnknownDeviceAfterExposureId ==
    (last.rec # 0 /\ UnknownDevice(last.rec)) =>
        LET h == header[last.rec]
            exp_id == to_exposure_id(h, NewState).out
            expected == IF exp_id.tag = "ok" THEN RuntimeError(h["CAM-ID"])
                        ELSE exp_id
        IN  /\ last.name = "to_detector_num"
                 => /\ last.out.tag = "RuntimeError"
                    /\ last.out.v = h["CAM-ID"]
            /\ last.name \in {"to_detector_exposure_id", "to_observation_id"}
                 => /\ last.out.tag # "ok"
                    /\ last.out.tag = expected.tag
                    /\ last.out.v = expected.v
            /\ C9_UnrelatedUnaffected

C9_Witness ==
    /\ last.rec # 0
    /\ UnknownDevice(last.rec)
    /\ last.name = "to_observation_id"
    /\ last.out = RuntimeError("camX")
    /\ "to_observation_type" \in DOMAIN cache[last.rec]

\* C10: datetime_end - datetime_begin equals exposure_time, in seconds.
C10_EndMinusBegin ==
    \A r \in Records :
        {"to_datetime_end", "to_datetime_begin", "to_exposure_time"}
            \subseteq DOMAIN cache[r]
        => TimeDiffSeconds(cache[r]["to_datetime_end"],
                           cache[r]["to_datetime_begin"])
             = get_quantity_value(cache[r]["to_exposure_time"], "s")

\* Two outcomes agree: the same value returned, or the same exception raised.
SameOutcome(o1, o2) == o1.tag = o2.tag /\ o1.v = o2.v

\* C11: dark_time is exposure_time (its value, or its failure) when IMAGETYP
\* is exactly "Dark Frame", a zero duration for every other IMAGETYP value,
\* and a KeyError naming IMAGETYP when the header has no IMAGETYP.
C11_DarkTime ==
    (last.rec # 0 /\ last.name = "to_dark_time") =>
        LET h == header[last.rec]
        IN  IF "IMAGETYP" \notin DOMAIN h
            THEN SameOutcome(last.out, KeyError("IMAGETYP"))
            ELSE IF h["IMAGETYP"] = "Dark Frame"
            THEN SameOutcome(last.out, to_exposure_time(h, NewState).out)
            ELSE SameOutcome(last.out, Ok(Quantity(0, "s")))

C11_Witness ==
    /\ last.name = "to_dark_time"
    /\ "IMAGETYP" \in DOMAIN header[last.rec]
    /\ header[last.rec]["IMAGETYP"] = "Dark Frame"
    /\ last.out.tag = "ok"
    /\ last.out.v = Quantity(1, "s")
    /\ cache[last.rec]["to_exposure_time"] = last.out.v

\* Other IMAGETYP values, a near miss of the literal included, give zero.
C11_WitnessNotDark ==
    /\ last.name = "to_dark_time"
    /\ {"IMAGETYP", "EXPTIME"} \subseteq DOMAIN header[last.rec]
    /\ header[last.rec]["IMAGETYP"] = "dark frame"
    /\ header[last.rec]["EXPTIME"] = 1
    /\ last.out = Ok(Quantity(0, "s"))

\* The header keys each accessor reads itself, as C13 lists them; the two
\* generated trivial accessors read the key of their mapping.
DirectKeys(a) ==
    CASE a \in {"to_exposure_id", "to_datetime_begin"} -> {"DATE-OBS"}
      [] a = "to_dark_time" -> {"IMAGETYP"}
      [] a = "to_observation_type" ->
            ProviderCards.header_to_observation_type
      [] a = "to_location" -> ProviderCards.header_to_location
      [] a = "to_tracking_radec" -> ProviderCards.header_to_radec
      [] a = "to_altaz_begin" -> ProviderCards.header_to_altaz
      [] a = "to_exposure_time" -> {"EXPTIME"}
      [] a = "to_detector_name" -> {"CAM-ID"}
      [] OTHER -> {}

\* The accessors that ran to their return during the step on record r: the
\* names the step added to the cache.
NewlyCached(r) == DOMAIN cache'[r] \ DOMAIN cache[r]

KeysOf(accessors) == UNION {DirectKeys(b) : b \in accessors}

\* C13: when a call returns, the keys added to the used-cards set are exactly
\* the keys read directly by the accessors that ran during the call: each one
\* marks what it read itself, and an accessor that only calls other accessors
\* (visit_id, observation_counter, detector_exposure_id, observation_id,
\* datetime_end) adds none.
C13_MarksWhatItReads ==
    [][\A r \in Records : \A a \in Accessors :
          (IsCall(r, a) /\ last'.out.tag = "ok")
              => /\ used'[r] = used[r] \cup KeysOf(NewlyCached(r))
                 /\ last'.reads = KeysOf(NewlyCached(r))]_vars

C13_Witness ==
    /\ ncalls = 1
    /\ last.name = "to_detector_exposure_id"
    /\ last.out.tag = "ok"
    /\ used[last.rec] = {"DATE-OBS", "CAM-ID"}
    /\ last.reads = {"DATE-OBS", "CAM-ID"}

\* The step is a call of accessor a on record r that raised.
IsFailedCall(r, a) == IsCall(r, a) /\ last'.out.tag # "ok"

\* C14 (as stated): a call that fails leaves the record's cache and
\* used-cards set exactly as they were before the call.
C14_FailureChangesNothing ==
    [][\A r \in Records : \A a \in Accessors :
          IsFailedCall(r, a)
              => (cache'[r] = cache[r] /\ used'[r] = used[r])]_vars

\* The accessors a method calls, directly or through another accessor.
Callees(a) ==
    CASE a \in {"to_visit_id", "to_observation_counter"} -> {"to_exposure_id"}
      [] a = "to_detector_num" -> {"to_detector_name"}
      [] a = "to_detector_exposure_id" ->
            {"to_exposure_id", "to_detector_num", "to_detector_name"}
      [] a = "to_observation_id" ->
            {"to_detector_exposure_id", "to_exposure_id", "to_detector_num",
             "to_detector_name"}
      [] a = "to_datetime_end" -> {"to_exposure_time", "to_datetime_begin"}
      [] a = "to_dark_time" -> {"to_exposure_time"}
      [] OTHER -> {}

\* C14 (amended): a call that fails caches nothing for the accessor that
\* failed and changes or removes no entry the cache held; the cache and the
\* used-cards set grow only by the entries and the directly read keys of the
\* accessors it called that returned before the failure.
C14_FailureKeepsCalleesOnly ==
    [][\A r \in Records : \A a \in Accessors :
          IsFailedCall(r, a)
              => /\ a \notin DOMAIN cache'[r]
                 /\ \A b \in DOMAIN cache[r] :
                       b \in DOMAIN cache'[r] /\ cache'[r][b] = cache[r][b]
                 /\ NewlyCached(r) \subseteq Callees(a)
                 /\ used'[r] = used[r] \cup KeysOf(NewlyCached(r))]_vars

\* A detector_exposure_id request that failed on an unknown camera has cached
\* exposure_id and detector_name and marked their cards.
C14_Witness ==
    /\ ncalls = 1
    /\ last.name = "to_detector_exposure_id"
    /\ last.out.tag = "RuntimeError"
    /\ DOMAIN cache[last.rec] = {"to_exposure_id", "to_detector_name"}
    /\ used[last.rec] = {"DATE-OBS", "CAM-ID"}

\* The accessor named a, applied to header h in record state st.
Resolve(a, h, st) ==
    CASE a = "to_detector_num" -> to_detector_num(h, st)
      [] a = "to_exposure_id" -> to_exposure_id(h, st)
      [] a = "to_visit_id" -> to_visit_id(h, st)
      [] a = "to_detector_exposure_id" -> to_detector_exposure_id(h, st)
      [] a = "to_observation_id" -> to_observation_id(h, st)
      [] a = "to_observation_counter" -> to_observation_counter(h, st)
      [] a = "to_datetime_begin" -> to_datetime_begin(h, st)
      [] a = "to_datetime_end" -> to_datetime_end(h, st)
      [] a = "to_observation_type" -> to_observation_type(h, st)
      [] a = "to_location" -> to_location(h, st)
      [] a = "to_tracking_radec" -> to_tracking_radec(h, st)
      [] a = "to_altaz_begin" -> to_altaz_begin(h, st)
      [] a = "to_dark_time" -> to_dark_time(h, st)
      [] a = "to_exposure_time" -> to_exposure_time(h, st)
      [] a = "to_detector_name" -> to_detector_name(h, st)
      [] a = "to_instrument" -> to_instrument(h, st)

\* What a translator that holds header h alone, freshly constructed, gives
\* for accessor a.
Alone(a, h) == Resolve(a, h, NewState)

\* A record with header h, cache c and used cards u holds what translating h
\* alone gives: every cached value is the value of that accessor alone, and
\* the used cards are those the cached accessors mark alone.
AsAlone(h, c, u) ==
    /\ \A a \in DOMAIN c :
          /\ Alone(a, h).out.tag = "ok"
          /\ c[a] = Alone(a, h).out.v
    /\ u = UNION {Alone(a, h).st.used : a \in DOMAIN c}

\* C12: under any interleaving of calls on several records, each call returns
\* what it returns on that record alone, leaves the record's cache and used
\* cards as translating it alone gives them, and changes neither another
\* record's cache or used cards, nor any header, nor the shared mapping
\* configuration.
C12_RecordsIndependent ==
    [][\A r \in Records : \A a \in Accessors :
          IsCall(r, a)
              => /\ SameOutcome(last'.out, Alone(a, header[r]).out)
                 /\ AsAlone(header[r], cache'[r], used'[r])
                 /\ \A q \in Records \ {r} :
                       cache'[q] = cache[q] /\ used'[q] = used[q]
                 /\ header' = header
                 /\ config' = config]_vars

C12_Witness ==
    /\ Records = {1, 2}
    /\ header[1] # header[2]
    /\ ncalls = 3
    /\ last.rec = 1
    /\ "to_exposure_time" \in DOMAIN cache[1]
    /\ "to_exposure_time" \in DOMAIN cache[2]
    /\ cache[1]["to_exposure_time"] # cache[2]["to_exposure_time"]
    /\ used[1] # used[2]

====
